---- MODULE Spec2Model ----
(***************************************************************************)
(* A model of wikiextractor.py (tongr/Wikipedia2Json): the per-page        *)
(* transformation (extract_raw_document, clean, compact, process_document, *)
(* process_page), the batch scheduler process_file and the sharded writer  *)
(* OutputSplitter.  Text is a TLA+ string; positions are 1-based, so a     *)
(* Python index i is position i + 1 here.                                  *)
(***************************************************************************)
EXTENDS Integers, Sequences, FiniteSets, TLC

(***************************************************************************)
(* Python str primitives used by the source.                               *)
(***************************************************************************)
UpperLetters == "ABCDEFGHIJKLMNOPQRSTUVWXYZÉ"
LowerLetters == "abcdefghijklmnopqrstuvwxyzé"
Digits == "0123456789"

CharAt(s, i) == IF i >= 1 /\ i <= Len(s) THEN SubSeq(s, i, i) ELSE ""

CharSet(s) == {SubSeq(s, i, i) : i \in 1..Len(s)}

UpperSet == CharSet(UpperLetters)
LowerSet == CharSet(LowerLetters)
DigitSet == CharSet(Digits)
SpaceSet == {" ", "\t", "\n", "\r"}

\* \w of the re module, on the characters of the model
IsWordChar(c) == c \in UpperSet \cup LowerSet \cup DigitSet \cup {"_"}

\* s[a:] and s[:-b] and s[a:-b] of Python, for a, b >= 0
DropFirst(s, a) == IF a >= Len(s) THEN "" ELSE SubSeq(s, a + 1, Len(s))
DropLast(s, b) == IF b >= Len(s) THEN "" ELSE SubSeq(s, 1, Len(s) - b)
Mid(s, a, b) == IF a + b >= Len(s) THEN "" ELSE SubSeq(s, a + 1, Len(s) - b)
\* s[:n]
Prefix(s, n) == IF n >= Len(s) THEN s ELSE IF n <= 0 THEN "" ELSE SubSeq(s, 1, n)

StartsWithAt(s, p, i) == i >= 1 /\ i + Len(p) - 1 <= Len(s) /\ SubSeq(s, i, i + Len(p) - 1) = p
StartsWith(s, p) == StartsWithAt(s, p, 1)
EndsWith(s, p) == StartsWithAt(s, p, Len(s) - Len(p) + 1)

\* str.find from position i (1-based), 0 when absent
FindFrom(s, sub, i) ==
    LET hits == {j \in i..(Len(s) - Len(sub) + 1) : SubSeq(s, j, j + Len(sub) - 1) = sub} IN
    IF i < 1 \/ hits = {} THEN 0 ELSE CHOOSE j \in hits : \A k \in hits : j <= k

Contains(s, sub) == FindFrom(s, sub, 1) # 0

\* str.replace(old, new): every non-overlapping occurrence, left to right
RECURSIVE Replace(_, _, _)
Replace(s, old, new) ==
    LET i == FindFrom(s, old, 1) IN
    IF i = 0 THEN s
    ELSE SubSeq(s, 1, i - 1) \o new \o Replace(DropFirst(s, i + Len(old) - 1), old, new)

IndexIn(s, c) == FindFrom(s, c, 1)

LowerChar(c) == IF c \in UpperSet THEN CharAt(LowerLetters, IndexIn(UpperLetters, c)) ELSE c
UpperChar(c) == IF c \in LowerSet THEN CharAt(UpperLetters, IndexIn(LowerLetters, c)) ELSE c

\* str.lower
RECURSIVE Lower(_)
Lower(s) ==
    IF Len(s) <= 1 THEN LowerChar(s)
    ELSE Lower(SubSeq(s, 1, Len(s) \div 2)) \o Lower(SubSeq(s, Len(s) \div 2 + 1, Len(s)))

\* str.lstrip / rstrip / strip with a set of characters (SpaceSet when no argument)
RECURSIVE LStrip(_, _)
LStrip(s, cs) == IF s # "" /\ SubSeq(s, 1, 1) \in cs THEN LStrip(DropFirst(s, 1), cs) ELSE s
RECURSIVE RStrip(_, _)
RStrip(s, cs) == IF s # "" /\ SubSeq(s, Len(s), Len(s)) \in cs THEN RStrip(DropLast(s, 1), cs) ELSE s
Strip(s, cs) == RStrip(LStrip(s, cs), cs)

\* str.split(sep): the pieces between the occurrences of sep, as a sequence
RECURSIVE Split(_, _)
Split(s, sep) ==
    LET i == FindFrom(s, sep, 1) IN
    IF i = 0 THEN <<s>>
    ELSE <<SubSeq(s, 1, i - 1)>> \o Split(DropFirst(s, i + Len(sep) - 1), sep)

\* len(s.split()): the number of whitespace-separated tokens
CountTokens(s) ==
    Cardinality({i \in 1..Len(s) : CharAt(s, i) \notin SpaceSet
                                    /\ (i = 1 \/ CharAt(s, i - 1) \in SpaceSet)})

\* str.islower: some cased character, and no upper-case one
IsLower(s) == CharSet(s) \cap LowerSet # {} /\ CharSet(s) \cap UpperSet = {}
\* str.isalpha: non-empty, letters only
IsAlpha(s) == s # "" /\ CharSet(s) \subseteq (UpperSet \cup LowerSet)

\* int(s) of a string of decimal digits
RECURSIVE ParseInt(_, _)
ParseInt(s, acc) ==
    IF s = "" THEN acc
    ELSE ParseInt(DropFirst(s, 1), 10 * acc + (IndexIn(Digits, SubSeq(s, 1, 1)) - 1))

\* '\n'.join(lines)
RECURSIVE Join(_, _)
Join(lines, sep) ==
    IF Len(lines) = 0 THEN ""
    ELSE IF Len(lines) = 1 THEN lines[1]
    ELSE lines[1] \o sep \o Join(Tail(lines), sep)

(***************************************************************************)
(* The regular expressions of AnnotatedWikiExtractor.__init__, as matchers.*)
(* A matcher takes the position of the first character and returns the     *)
(* position of the last character of the match, or 0.                      *)
(***************************************************************************)
RECURSIVE SkipSpaces(_, _)
SkipSpaces(s, i) == IF i <= Len(s) /\ SubSeq(s, i, i) \in SpaceSet THEN SkipSpaces(s, i + 1) ELSE i

\* the tail "(\s*| [^/]+?)>" of a tag pattern, from position k
TagTailEnd(s, k) ==
    LET k2 == SkipSpaces(s, k)
        m  == FindFrom(s, ">", k + 2)
    IN  IF CharAt(s, k2) = ">" THEN k2
        ELSE IF CharAt(s, k) = " " /\ m # 0 /\ ~Contains(SubSeq(s, k + 1, m - 1), "/") THEN m
        ELSE 0

\* <\s*TAG(\s*| [^/]+?)> at i; low is Lower(s) (re.IGNORECASE)
OpenTagEnd(s, low, i, tag) ==
    LET j == SkipSpaces(s, i + 1) IN
    IF CharAt(s, i) = "<" /\ StartsWithAt(low, tag, j) THEN TagTailEnd(s, j + Len(tag)) ELSE 0

\* <\s*/\s*TAG\s*> at i
CloseTagEnd(s, low, i, tag) ==
    LET j == SkipSpaces(s, i + 1)
        k == SkipSpaces(s, j + 1)
        e == SkipSpaces(s, k + Len(tag))
    IN  IF CharAt(s, i) = "<" /\ CharAt(s, j) = "/" /\ StartsWithAt(low, tag, k) /\ CharAt(s, e) = ">"
        THEN e ELSE 0

\* the first close tag at or after position p: <<start, end>>, or <<0, 0>>
RECURSIVE FindCloseTag(_, _, _, _)
FindCloseTag(s, low, p, tag) ==
    LET i == FindFrom(s, "<", p) IN
    IF i = 0 THEN <<0, 0>>
    ELSE IF CloseTagEnd(s, low, i, tag) # 0 THEN <<i, CloseTagEnd(s, low, i, tag)>>
    ELSE FindCloseTag(s, low, i + 1, tag)

\* <\s*TAG(\s*| [^/]+?)>.*?<\s*/\s*TAG\s*> at i (re.DOTALL)
BlockEnd(s, low, i, tag) ==
    LET e == OpenTagEnd(s, low, i, tag) IN
    IF e = 0 THEN 0 ELSE FindCloseTag(s, low, e + 1, tag)[2]

\* the first "/\s*>" at or after position p: the position of its ">", or 0
RECURSIVE SlashCloseFrom(_, _)
SlashCloseFrom(s, p) ==
    LET q == FindFrom(s, "/", p) IN
    IF q = 0 THEN 0
    ELSE IF CharAt(s, SkipSpaces(s, q + 1)) = ">" THEN SkipSpaces(s, q + 1)
    ELSE SlashCloseFrom(s, q + 1)

\* <\s*TAG(\s*| .+?)/\s*> at i
GoodSingleEnd(s, low, i, tag) ==
    LET j  == SkipSpaces(s, i + 1)
        k  == j + Len(tag)
        k2 == SkipSpaces(s, k)
    IN  IF ~(CharAt(s, i) = "<" /\ StartsWithAt(low, tag, j)) THEN 0
        ELSE IF CharAt(s, k2) = "/" /\ CharAt(s, SkipSpaces(s, k2 + 1)) = ">" THEN SkipSpaces(s, k2 + 1)
        ELSE IF CharAt(s, k) = " " THEN SlashCloseFrom(s, k + 2)
        ELSE 0

\* <\s*(/|\\)?\s*TAG(\s*| [^/]+?)\\?\s*> at i
BadSingleEnd(s, low, i, tag) ==
    LET j0 == SkipSpaces(s, i + 1)
        j  == IF CharAt(s, j0) \in {"/", "\\"} /\ StartsWithAt(low, tag, SkipSpaces(s, j0 + 1))
              THEN SkipSpaces(s, j0 + 1) ELSE j0
        k  == j + Len(tag)
        k2 == SkipSpaces(s, k)
        k3 == IF CharAt(s, k2) = "\\" THEN SkipSpaces(s, k2 + 1) ELSE k2
    IN  IF ~(CharAt(s, i) = "<" /\ StartsWithAt(low, tag, j)) THEN 0
        ELSE IF CharAt(s, k3) = ">" THEN k3
        ELSE TagTailEnd(s, k)

\* OPEN [^X]*? CLOSE at i: the wikilink and table patterns
SpanEnd(s, i, open, excl, close) ==
    LET c == FindFrom(s, close, i + Len(open)) IN
    IF StartsWithAt(s, open, i) /\ c # 0 /\ ~Contains(SubSeq(s, i + Len(open), c - 1), excl)
    THEN c + Len(close) - 1 ELSE 0

GoodWikilinkEnd(s, i) == SpanEnd(s, i, "[[", "[", "]]")
BadLeftWikilinkEnd(s, i) == SpanEnd(s, i, "[", "[", "]]")
BadRightWikilinkEnd(s, i) == SpanEnd(s, i, "[[", "[", "]")
TableEnd(s, i) == SpanEnd(s, i, "{", "{", "}")

\* <!--.*?--> at i
CommentEnd(s, i) ==
    LET c == FindFrom(s, "-->", i + 4) IN
    IF StartsWithAt(s, "<!--", i) /\ c # 0 THEN c + 2 ELSE 0

\* \[http.*?\] at i (re.IGNORECASE)
HttpLinkEnd(s, i) ==
    IF CharAt(s, i) = "[" /\ i + 4 <= Len(s) /\ Lower(SubSeq(s, i + 1, i + 4)) = "http"
    THEN FindFrom(s, "]", i + 5) ELSE 0

\* \w'(Q[^\s'][^']*?[^\s']Q)[^'] at i, Q being q apostrophes: the end of the match;
\* the group is the match without its first two and its last character
ApostropheEnd(s, i, q) ==
    LET Q == IF q = 3 THEN "'''" ELSE "''"
        c == FindFrom(s, "'", i + 3 + q)
    IN  IF /\ IsWordChar(CharAt(s, i))
           /\ CharAt(s, i + 1) = "'"
           /\ StartsWithAt(s, Q, i + 2)
           /\ CharAt(s, i + 2 + q) \notin SpaceSet \cup {"'", ""}
           /\ c >= i + 4 + q
           /\ CharAt(s, c - 1) \notin SpaceSet
           /\ StartsWithAt(s, Q, c)
           /\ CharAt(s, c + q) \notin {"'", ""}
        THEN c + q ELSE 0

\* <a href="([^"]+)">([^>]+)</a> at i: group 1 lies from i + 9 to the quote, group 2
\* from AnchorText(s, i) to 4 before the end
AnchorQuote(s, i) == FindFrom(s, "\"", i + 9)
AnchorText(s, i) == AnchorQuote(s, i) + 2
AnchorEnd(s, i) ==
    LET q == AnchorQuote(s, i)
        e == FindFrom(s, ">", q + 2)
    IN  IF /\ StartsWithAt(s, "<a href=\"", i)
           /\ q > i + 9
           /\ CharAt(s, q + 1) = ">"
           /\ e >= q + 6
           /\ StartsWithAt(s, "</a>", e - 3)
        THEN e ELSE 0

\* &#\d+?; at i
RECURSIVE SkipDigits(_, _)
SkipDigits(s, i) == IF i <= Len(s) /\ SubSeq(s, i, i) \in DigitSet THEN SkipDigits(s, i + 1) ELSE i
NumericEntityEnd(s, i) ==
    LET e == SkipDigits(s, i + 2) IN
    IF StartsWithAt(s, "&#", i) /\ e > i + 2 /\ CharAt(s, e) = ";" THEN e ELSE 0

\* the end of the run of character c that starts at i
RECURSIVE RunEnd(_, _, _)
RunEnd(s, i, c) == IF CharAt(s, i + 1) = c THEN RunEnd(s, i + 1, c) ELSE i
\* X{n,} at i
RunAtLeastEnd(s, i, c, n) ==
    IF CharAt(s, i) = c /\ RunEnd(s, i, c) - i + 1 >= n THEN RunEnd(s, i, c) ELSE 0

(***************************************************************************)
(* re.finditer and re.sub over the matchers.  A pattern is a record: k its *)
(* kind, tag the tag name of a tag pattern, q the number of apostrophes.   *)
(***************************************************************************)
Pat(k, tag) == [k |-> k, tag |-> tag]

MatchEnd(pat, s, low, i) ==
    CASE pat.k = "comment"   -> CommentEnd(s, i)
      [] pat.k = "block"     -> BlockEnd(s, low, i, pat.tag)
      [] pat.k = "open"      -> OpenTagEnd(s, low, i, pat.tag)
      [] pat.k = "close"     -> CloseTagEnd(s, low, i, pat.tag)
      [] pat.k = "good"      -> GoodSingleEnd(s, low, i, pat.tag)
      [] pat.k = "bad"       -> BadSingleEnd(s, low, i, pat.tag)
      [] pat.k = "table"     -> TableEnd(s, i)
      [] pat.k = "wikilink"  -> GoodWikilinkEnd(s, i)
      [] pat.k = "badleft"   -> BadLeftWikilinkEnd(s, i)
      [] pat.k = "badright"  -> BadRightWikilinkEnd(s, i)
      [] pat.k = "http"      -> HttpLinkEnd(s, i)
      [] pat.k = "bold"      -> ApostropheEnd(s, i, 3)
      [] pat.k = "italic"    -> ApostropheEnd(s, i, 2)
      [] pat.k = "numeric"   -> NumericEntityEnd(s, i)
      [] pat.k = "anchor"    -> AnchorEnd(s, i)
      [] pat.k = "spaces"    -> RunAtLeastEnd(s, i, " ", 2)
      [] pat.k = "dots"      -> RunAtLeastEnd(s, i, ".", 4)

\* the first position at or after p where the pattern can start, or 0
FirstChar(pat) ==
    CASE pat.k \in {"comment", "block", "open", "close", "good", "bad", "anchor"} -> "<"
      [] pat.k = "table" -> "{"
      [] pat.k \in {"wikilink", "badleft", "badright", "http"} -> "["
      [] pat.k = "numeric" -> "&"
      [] pat.k = "spaces" -> " "
      [] pat.k = "dots" -> "."
      [] OTHER -> "'"
NextStart(pat, s, p) ==
    IF pat.k \in {"bold", "italic"}
    THEN LET a == FindFrom(s, "'", p + 1) IN IF a = 0 THEN 0 ELSE a - 1
    ELSE FindFrom(s, FirstChar(pat), p)

\* re.finditer: the <<start, end>> of the matches from position p on; i is the
\* next position where a match can start and e the end of the match tried there
RECURSIVE MatchesFrom(_, _, _, _)
MatchesAt(pat, s, low, i, e) ==
    IF e = 0 THEN MatchesFrom(pat, s, low, i + 1)
    ELSE <<<<i, e>>>> \o MatchesFrom(pat, s, low, e + 1)
MatchesNext(pat, s, low, i) ==
    IF i = 0 THEN <<>> ELSE MatchesAt(pat, s, low, i, MatchEnd(pat, s, low, i))
MatchesFrom(pat, s, low, p) == MatchesNext(pat, s, low, NextStart(pat, s, p))

\* match.group() of every match of finditer, in order
MatchGroups(s, ms) == [n \in 1..Len(ms) |-> SubSeq(s, ms[n][1], ms[n][2])]
Groups(pat, s) == MatchGroups(s, MatchesFrom(pat, s, Lower(s), 1))

\* re.sub(pattern, repl, s) with a constant repl; a is the start of the text
\* not yet copied
RECURSIVE SubFrom(_, _, _, _, _, _)
SubAt(pat, s, low, a, i, e, repl) ==
    IF e = 0 THEN SubFrom(pat, s, low, a, i + 1, repl)
    ELSE SubSeq(s, a, i - 1) \o repl \o SubFrom(pat, s, low, e + 1, e + 1, repl)
SubNext(pat, s, low, a, i, repl) ==
    IF i = 0 THEN DropFirst(s, a - 1)
    ELSE SubAt(pat, s, low, a, i, MatchEnd(pat, s, low, i), repl)
SubFrom(pat, s, low, a, p, repl) == SubNext(pat, s, low, a, NextStart(pat, s, p), repl)

Sub(pat, s, repl) == SubFrom(pat, s, Lower(s), 1, 1, repl)

(***************************************************************************)
(* get_wiki_document_url and the class constants of AnnotatedWikiExtractor *)
(***************************************************************************)
\* urllib.parse.quote on the characters of the model: the reserved ones are
\* percent-encoded, letters, digits and "_.-~/" are kept
QuoteChar(c) ==
    CASE c = "#" -> "%23" [] c = "%" -> "%25" [] c = "\"" -> "%22" [] c = ":" -> "%3A"
      [] c = "(" -> "%28" [] c = ")" -> "%29" [] c = "'" -> "%27" [] c = "|" -> "%7C"
      [] c = "&" -> "%26" [] c = "é" -> "%C3%A9" [] c = "É" -> "%C3%89" [] OTHER -> c
RECURSIVE UrlQuote(_)
UrlQuote(s) ==
    IF Len(s) <= 1 THEN QuoteChar(s)
    ELSE UrlQuote(SubSeq(s, 1, Len(s) \div 2)) \o UrlQuote(SubSeq(s, Len(s) \div 2 + 1, Len(s)))

\* title[0] raises IndexError on an empty title: callers test UrlRaises first
UrlRaises(wiki_document_title) == wiki_document_title = ""
\* title[0].upper() + title[1:]
Capitalize(title) == UpperChar(SubSeq(title, 1, 1)) \o DropFirst(title, 1)
get_wiki_document_url(wiki_document_title, prefix, quote) ==
    prefix \o Capitalize(IF quote
                         THEN Replace(Replace(Replace(Replace(Replace(
                                  UrlQuote(Replace(wiki_document_title, " ", "_")),
                                  "%28", "("), "%29", ")"), "%3A", ":"), "%22", "\""), "%27", "'")
                         ELSE Replace(wiki_document_title, " ", "_"))

garbage_tags == <<"ref", "gallery", "timeline", "noinclude", "pre", "table", "tr", "td", "ul",
                  "li", "ol", "dl", "dt", "dd", "menu", "dir">>
wrapper_tags == <<"nowiki", "cite", "source", "hiero", "div", "font", "span", "strong", "strike",
                  "blockquote", "tt", "var", "sup", "sub", "big", "small", "center", "h1", "h2",
                  "h3", "em", "b", "i", "u", "a", "s", "p">>
single_tags == <<"references", "ref", "img", "br", "hr", "li", "dt", "dd">>
placeholder_tags == << <<"math", "formula">>, <<"code", "codice">> >>
project_namespaces == <<"wikipedia", "mediawiki", "wikiquote", "wikibooks", "wikisource",
                        "wiktionary", "wikispecies", "wikinews", "wikiversity", "commons",
                        "wikicities", "wikispot">>
garbage_link_prefixes == <<"image", "category", "file", "http", "https", "simple", "meta",
                           "wikipedia", "media", "template", "portal", "user", "wikt", "wikihow",
                           "help", "user talk", "special", "s", "b", "v", "q", "?">>
allowed_prefixes == <<"w:", "en:">>
garbage_page_prefixes == <<"Image:", "File:", "Wikipedia:", "Template:", "Portal:", "User:",
                           "Help:", "Book:", "Draft:", "Module:", "TimedText:", "MediaWiki:">>
\* the entries of __char_entities whose entity the pages of the model can hold,
\* in the order of the dictionary
char_entities == << <<"&pound;", "£">>, <<"&Eacute;", "É">>, <<"&eacute;", "é">>,
                    <<"&quot;", "\"">>, <<"&lt;", "<">>, <<"&gt;", ">">> >>

default_prefix == "http://en.wikipedia.org/wiki/"

\* whether some element of the sequence satisfies s.startswith(element + suffix)
StartsWithAny(s, prefixes, suffix) ==
    \E n \in 1..Len(prefixes) : StartsWith(s, prefixes[n] \o suffix)

(***************************************************************************)
(* AnnotatedWikiExtractor.__handle_wikilink, __get_anchor_tag,             *)
(* __handle_unicode                                                        *)
(***************************************************************************)
\* the link without its redundant leading colon and its allowed prefix
StripAllowedPrefix(wikilink) ==
    LET w  == IF StartsWith(wikilink, ":") THEN DropFirst(wikilink, 1) ELSE wikilink
        lw == Lower(Strip(w, SpaceSet))
    IN  IF StartsWith(lw, allowed_prefixes[1]) THEN DropFirst(w, Len(allowed_prefixes[1]))
        ELSE IF StartsWith(lw, allowed_prefixes[2]) THEN DropFirst(w, Len(allowed_prefixes[2]))
        ELSE w

\* [title |-> article_title, text |-> link_text, cats |-> what is added to the sink]
Link(article_title, link_text, cats) == [title |-> article_title, text |-> link_text, cats |-> cats]
\* lines 577-608 on parts, wclean, tokens and the categories added to the sink
LinkOf(parts, wclean, tokens, cats) ==
    IF StartsWithAny(wclean, garbage_link_prefixes \o project_namespaces, ":")
    THEN Link("", "", cats)
    ELSE IF Len(tokens) > 1 /\ Len(tokens[1]) <= 3 /\ IsLower(tokens[1]) /\ IsAlpha(tokens[1])
    THEN Link("", "", cats)
    ELSE IF Len(parts) = 1 THEN Link(parts[1], parts[1], cats)
    ELSE IF Len(parts) = 2 THEN Link(parts[1], parts[2], cats)
    ELSE Link("", "", cats)
SinkOf(parts, wclean, has_sink) ==
    IF has_sink /\ StartsWith(wclean, "category:") THEN {parts[1]} ELSE {}
LinkOfClean(parts, wclean, has_sink) ==
    LinkOf(parts, wclean, Split(parts[1], ":"), SinkOf(parts, wclean, has_sink))
LinkOfParts(parts, has_sink) == LinkOfClean(parts, Lower(Strip(parts[1], SpaceSet)), has_sink)
handle_wikilink(wikilink, has_sink) ==
    LinkOfParts(Split(StripAllowedPrefix(wikilink), "|"), has_sink)

get_anchor_tag(document_title, link_text) ==
    IF link_text = "" THEN ""
    ELSE IF document_title = "" THEN link_text
    ELSE "<a href=\"" \o get_wiki_document_url(document_title, "", FALSE) \o "\">"
         \o link_text \o "</a>"

\* chr() on the code points of the model: printable ASCII (but the backquote) and two accented
\* letters; any other code point below 0x10000 is shown as U+00A4
Ascii == " !\"#$%&'()*+,-./0123456789:;<=>?@ABCDEFGHIJKLMNOPQRSTUVWXYZ[\\]^_¤abcdefghijklmnopqrstuvwxyz{|}~"
Chr(n) == IF n >= 32 /\ n <= 126 THEN CharAt(Ascii, n - 31)
          ELSE IF n = 233 THEN "é" ELSE IF n = 201 THEN "É" ELSE "¤"
handle_unicode(entity) ==
    LET numeric_code == ParseInt(Mid(entity, 2, 1), 0) IN
    IF numeric_code >= 65536 THEN "" ELSE Chr(numeric_code)

(***************************************************************************)
(* AnnotatedWikiExtractor.__clean, on [text, categories]: the text and the *)
(* category set of the document.  Its statements are of three forms:       *)
(*   text = text.replace(a, b)                                             *)
(*   text = pattern.sub(b, text)                                           *)
(*   for match in pattern.finditer(text): text = text.replace(..., ...)    *)
(***************************************************************************)
\* the literal of lines 386 and 477 is U+FFFD twice (for both << and >>);
\* U+FFFD is written U+00BF here
Mojibake == "¿¿"

\* the compiled pattern lists of lines 216-239
garbage_tag_patterns == [n \in 1..Len(garbage_tags) |-> Pat("block", garbage_tags[n])]
wrapper_tag_patterns ==
    [n \in 1..Len(wrapper_tags) |-> <<Pat("open", wrapper_tags[n]), Pat("close", wrapper_tags[n])>>]
single_tag_patterns ==
    [n \in 1..Len(single_tags) |-> <<Pat("good", single_tags[n]), Pat("bad", single_tags[n])>>]
placeholder_tag_patterns ==
    [n \in 1..Len(placeholder_tags) |-> <<Pat("block", placeholder_tags[n][1]), placeholder_tags[n][2]>>]

ReplaceStmt(a, b) ==
    [op |-> "replace", pat |-> Pat("", ""), a |-> a, b |-> b, lead |-> 0, trail |-> 0,
     anchors |-> FALSE]
SubStmt(pat, b) ==
    [op |-> "sub", pat |-> pat, a |-> "", b |-> b, lead |-> 0, trail |-> 0, anchors |-> FALSE]
\* the loop over the matches of pat whose body is op: lead and trail are the
\* character counts cut from the match, b the text put around or before the
\* replacement, anchors whether a wikilink becomes an anchor tag (its
\* categories being collected) or its link text
ForStmt(op, pat, b, lead, trail, anchors) ==
    [op |-> op, pat |-> pat, a |-> "", b |-> b, lead |-> lead, trail |-> trail,
     anchors |-> anchors]

\* for pattern in patterns: text = pattern.sub('', text)
SubEach(patterns) == [n \in 1..Len(patterns) |-> SubStmt(patterns[n], "")]
\* for first, second in pairs: text = first.sub('', text); text = second.sub('', text)
SubPairs(pairs) == [n \in 1..2 * Len(pairs) |-> SubStmt(pairs[(n + 1) \div 2][2 - (n % 2)], "")]

\* lines 385-477
clean_statements ==
    <<ReplaceStmt("&lt;", "<"), ReplaceStmt("&gt;", ">"),
      ReplaceStmt("<<", Mojibake), ReplaceStmt(">>", Mojibake),
      SubStmt(Pat("comment", ""), "")>>
    \o SubEach(garbage_tag_patterns)
    \o SubPairs(wrapper_tag_patterns)
    \o SubPairs(single_tag_patterns)
    \o [n \in 1..Len(placeholder_tag_patterns) |->
           ForStmt("placeholder", placeholder_tag_patterns[n][1], placeholder_tag_patterns[n][2],
                   0, 0, FALSE)]
    \o <<ReplaceStmt("{{end box}}", "}"),
         ReplaceStmt("{{", "{"), ReplaceStmt("}}", "}"),
         ReplaceStmt("{|", "{"), ReplaceStmt("|}", "}"),
         SubStmt(Pat("table", ""), ""), SubStmt(Pat("table", ""), ""), SubStmt(Pat("table", ""), ""),
         ForStmt("wikilink", Pat("wikilink", ""), "", 2, 2, TRUE),
         ForStmt("wikilink", Pat("wikilink", ""), "", 2, 2, FALSE),
         ForStmt("wikilink", Pat("badleft", ""), "", 1, 2, TRUE),
         ForStmt("wikilink", Pat("badright", ""), "", 2, 1, TRUE),
         ReplaceStmt("[[", ""), ReplaceStmt("]]", ""),
         SubStmt(Pat("http", ""), ""), ReplaceStmt("[]", ""),
         ForStmt("emphasis", Pat("bold", ""), "", 3, 3, FALSE),
         ForStmt("emphasis", Pat("italic", ""), "&quot;", 2, 2, FALSE),
         ReplaceStmt("'''", ""), ReplaceStmt("''", "&quot;"),
         ReplaceStmt("&amp;", "&"), ReplaceStmt("&quot;&quot;", "&quot;")>>
    \o [n \in 1..Len(char_entities) |-> ReplaceStmt(char_entities[n][1], char_entities[n][2])]
    \o <<ForStmt("numeric", Pat("numeric", ""), "", 0, 0, FALSE),
         ReplaceStmt("\t", " "),
         SubStmt(Pat("spaces", ""), " "), SubStmt(Pat("dots", ""), "..."),
         ReplaceStmt(" ,", ","), ReplaceStmt(" .", "."),
         ReplaceStmt(" :", ":"), ReplaceStmt(" ;", ";"),
         ReplaceStmt(",,", ","), ReplaceStmt(",.", "."),
         ReplaceStmt("( ", "("), ReplaceStmt(" )", ")"),
         ReplaceStmt("[ ", "["), ReplaceStmt(" ]", "]"),
         ReplaceStmt(Mojibake \o " ", Mojibake), ReplaceStmt(" " \o Mojibake, Mojibake)>>

\* text = text.replace(old, new), cats being added to the categories
ReplaceIn(d, old, new, cats) ==
    [text |-> Replace(d.text, old, new), categories |-> d.categories \cup cats]

\* the body of a wikilink loop on the match wikilink, r being what
\* __handle_wikilink returns
ReplaceWikilink(d, wikilink, r, anchors) ==
    ReplaceIn(d, wikilink, IF anchors THEN get_anchor_tag(r.title, r.text) ELSE r.text, r.cats)

\* the body of an apostrophe loop: group(1) of the match is the match without
\* its first two characters and its last one
ReplaceEmphasis(d, emphasis_text, st) ==
    ReplaceIn(d, emphasis_text, st.b \o Mid(emphasis_text, st.lead, st.trail) \o st.b, {})

\* the body of the loop st on the match group, the index-th of the snapshot
LoopBody(d, group, st, index) ==
    CASE st.op = "placeholder" -> ReplaceIn(d, group, st.b \o "_" \o ToString(index), {})
      [] st.op = "wikilink" ->
             ReplaceWikilink(d, group, handle_wikilink(Mid(group, st.lead, st.trail), st.anchors),
                             st.anchors)
      [] st.op = "emphasis" -> ReplaceEmphasis(d, Mid(group, 2, 1), st)
      [] st.op = "numeric" -> ReplaceIn(d, group, handle_unicode(group), {})

\* Python evaluates statement by statement: Done(t) holds once the value t of
\* the statement before is computed
Done(t) == Len(t) >= 0

\* for match in pattern.finditer(text): the matches are those of the text
\* before the loop, the replacements are made in the running text
RECURSIVE ForMatches(_, _, _, _)
ForMatches(d, groups, st, index) ==
    IF ~Done(d.text) \/ index > Len(groups) THEN d
    ELSE ForMatches(LoopBody(d, groups[index], st, index), groups, st, index + 1)

Statement(d, st) ==
    CASE st.op = "replace" -> ReplaceIn(d, st.a, st.b, {})
      [] st.op = "sub" -> [text |-> Sub(st.pat, d.text, st.b), categories |-> d.categories]
      [] OTHER -> ForMatches(d, Groups(st.pat, d.text), st, 1)

\* the statements first..last in order, the first half before the second
RECURSIVE Execute(_, _, _, _)
Execute(d, statements, first, last) ==
    IF ~Done(d.text) \/ first > last THEN d
    ELSE IF first = last THEN Statement(d, statements[first])
    ELSE Execute(Execute(d, statements, first, (first + last) \div 2),
                 statements, (first + last) \div 2 + 1, last)

clean_text(text, categories) ==
    Execute([text |-> text, categories |-> categories], clean_statements, 1, Len(clean_statements))

(***************************************************************************)
(* The document (AnnotatedWikiDocument) and the extractor's configuration. *)
(* None is [some |-> FALSE]; an operator that can return None or raise     *)
(* returns [st |-> "ok" | "none" | "raise", ...].                          *)
(***************************************************************************)
NoneStr == [some |-> FALSE, v |-> ""]
NoneInt == [some |-> FALSE, v |-> 0]
Some(x) == [some |-> TRUE, v |-> x]

\* AnnotatedWikiDocument.__init__
AnnotatedWikiDocument ==
    [id |-> NoneInt, url |-> NoneStr, title |-> NoneStr, text |-> NoneStr,
     annotations |-> <<>>, categories |-> {}]

Ok(doc) == [st |-> "ok", doc |-> doc, exc |-> ""]
ReturnNone == [st |-> "none", doc |-> AnnotatedWikiDocument, exc |-> ""]
Raise(exc) == [st |-> "raise", doc |-> AnnotatedWikiDocument, exc |-> exc]

\* AnnotatedWikiExtractor.__init__ with the defaults of line 831
DefaultConfig ==
    [prefix |-> default_prefix, drop_lists |-> FALSE, drop_enumerations |-> FALSE,
     drop_tables |-> FALSE, drop_indents |-> FALSE, keep_anchors |-> FALSE]

reject_page(title) == \E n \in 1..Len(garbage_page_prefixes) : StartsWith(title, garbage_page_prefixes[n])

\* the body of the loop of extract_raw_document for one line: the next
\* [st, doc, exc], st = "ok" meaning that the loop goes on
ExtractLine(doc, line, cfg, quote) ==
    LET IsId == ~(doc.id.some /\ doc.id.v # 0) /\ StartsWith(line, "<id>") /\ EndsWith(line, "</id>")
        IsTitle == ~(doc.url.some /\ doc.url.v # "") /\ StartsWith(line, "<title>")
                   /\ EndsWith(line, "</title>")
        digits == Mid(line, 4, 5)
        title == Replace(Mid(line, 7, 8), "&amp;", "&")
        body == IF StartsWith(line, "<text")
                THEN (IF EndsWith(line, "</text>") THEN Mid(line, 27, 7) ELSE DropFirst(line, 27))
                ELSE IF EndsWith(line, "</text>") THEN DropLast(line, 7)
                ELSE IF SubSeq(line, 1, 1) = "=" THEN "==" \o Strip(line, {"=", " "}) \o "=="
                ELSE line
    IN  IF line = "" THEN Ok(doc)
        ELSE IF IsId
        THEN (IF digits # "" /\ CharSet(digits) \subseteq DigitSet
              THEN Ok([doc EXCEPT !.id = Some(ParseInt(digits, 0))])
              ELSE Raise("ValueError"))
        ELSE IF IsTitle
        THEN (IF reject_page(title) THEN ReturnNone
              ELSE IF UrlRaises(title) THEN Raise("IndexError")
              ELSE Ok([doc EXCEPT !.title = Some(title),
                                 !.url = Some(get_wiki_document_url(title, cfg.prefix, quote)),
                                 !.text = Some("++" \o title \o "++")]))
        ELSE IF (StartsWith(line, "<text") \/ EndsWith(line, "</text>")) /\ body = "" THEN Ok(doc)
        ELSE IF ~StartsWith(line, "<text") /\ ~EndsWith(line, "</text>") /\ SubSeq(line, 1, 1) = "<"
        THEN Ok(doc)
        ELSE IF ~doc.text.some THEN Raise("TypeError")
        ELSE Ok([doc EXCEPT !.text = Some(doc.text.v \o "\n" \o body)])

\* the loop of extract_raw_document from line n of the page on, r being the
\* outcome of the line before
RECURSIVE ExtractLines(_, _, _, _, _)
ExtractNext(r, page, n, cfg, quote) ==
    IF r.st = "ok" THEN ExtractLines(r.doc, page, n, cfg, quote) ELSE r
ExtractLines(doc, page, n, cfg, quote) ==
    IF n > Len(page) THEN Ok(doc)
    ELSE ExtractNext(ExtractLine(doc, page[n], cfg, quote), page, n + 1, cfg, quote)

extract_raw_document(page, cfg, quote) == ExtractLines(AnnotatedWikiDocument, page, 1, cfg, quote)

\* __clean: wiki_document.text.replace on a text that is None raises
Cleaned(doc, d) == Ok([doc EXCEPT !.text = Some(d.text), !.categories = d.categories])
clean(doc) ==
    IF ~doc.text.some THEN Raise("AttributeError")
    ELSE Cleaned(doc, clean_text(doc.text.v, doc.categories))

(***************************************************************************)
(* AnnotatedWikiExtractor.__compact                                        *)
(***************************************************************************)
\* a title or heading line without its two leading and trailing characters,
\* with a full stop unless it ends in "!" or "?"
Sentence(line) ==
    LET title == Mid(line, 2, 2) IN
    IF title # "" /\ SubSeq(title, Len(title), Len(title)) \notin {"!", "?"} THEN title \o "." ELSE title

\* the loop over the lines from line n on, page and paragraph being the two
\* lists: [st |-> "redirect", text] on a redirect line, else [st |-> "end", page, paragraph]
RECURSIVE CompactLines(_, _, _, _, _)
CompactLines(lines, n, page, paragraph, cfg) ==
    IF n > Len(lines) THEN [st |-> "end", text |-> "", page |-> page, paragraph |-> paragraph]
    ELSE LET line == Strip(lines[n], SpaceSet)
             c == SubSeq(line, 1, 1)
             Skip == CompactLines(lines, n + 1, page, paragraph, cfg)
         IN  IF line = "" THEN Skip
             ELSE IF StartsWith(line, "++")
             THEN CompactLines(lines, n + 1, <<Sentence(line)>>, paragraph, cfg)
             ELSE IF StartsWith(line, "==")
             THEN CompactLines(lines, n + 1,
                               IF Len(paragraph) > 1 THEN page \o paragraph ELSE page,
                               <<Sentence(line)>>, cfg)
             ELSE IF Lower(Prefix(line, 9)) = "#redirect"
             THEN [st |-> "redirect", text |-> line, page |-> page, paragraph |-> paragraph]
             \* a list, enumeration, indent, definition or table line: dropped, or
             \* stripped of its marker; the stripped line is appended to neither list
             ELSE IF c = "*" THEN Skip
             ELSE IF c = "#" THEN Skip
             ELSE IF c = ":" THEN Skip
             ELSE IF c = ";" THEN Skip
             ELSE IF c \in {"{", "|"} THEN Skip
             ELSE IF Strip(line, {".", "-", " "}) = "" THEN Skip
             ELSE IF ~Contains(line, "_") /\ CountTokens(line) < 6 THEN Skip
             ELSE IF Len(paragraph) = 0
             THEN CompactLines(lines, n + 1, Append(page, line), paragraph, cfg)
             ELSE CompactLines(lines, n + 1, page, Append(paragraph, line), cfg)

\* lines 557-563 on what the loop leaves
CompactEnd(doc, r) ==
    IF r.st = "redirect" THEN Ok([doc EXCEPT !.text = Some(r.text)])
    ELSE IF Len(r.paragraph) > 1 THEN Ok([doc EXCEPT !.text = Some(Join(r.page \o r.paragraph, "\n"))])
    ELSE IF Len(r.page) = 1 THEN ReturnNone
    ELSE Ok([doc EXCEPT !.text = Some(Join(r.page, "\n"))])
compact(doc, cfg) == CompactEnd(doc, CompactLines(Split(doc.text.v, "\n"), 1, <<>>, <<>>, cfg))

(***************************************************************************)
(* AnnotatedWikiExtractor.process_document: the annotations and the text   *)
(* with every anchor replaced by its label                                 *)
(***************************************************************************)
\* a variant of the loop below whose offset is m.start() itself, the position in
\* the text that still holds the anchor tags
RECURSIVE AnnotateAtStart(_, _, _, _, _)
AnnotateAtStart(text, ms, n, deltaStringLength, keep_anchors) ==
    IF n > Len(ms) THEN <<>>
    ELSE LET i == ms[n][1]
             uri == SubSeq(text, i + 9, AnchorQuote(text, i) - 1)
             surface_form == SubSeq(text, AnchorText(text, i), ms[n][2] - 4)
             rest == AnnotateAtStart(text, ms, n + 1, deltaStringLength, keep_anchors)
         IN  IF ~Contains(uri, UrlQuote("#")) \/ keep_anchors
             THEN <<[uri |-> uri, surface_form |-> surface_form, offset |-> i - 1]>> \o rest
             ELSE rest

\* the annotations of the matches ms[n..] of finditer; an offset is a Python
\* (0-based) index
RECURSIVE Annotate(_, _, _, _, _)
Annotate(text, ms, n, deltaStringLength, keep_anchors) ==
    IF n > Len(ms) THEN <<>>
    ELSE LET i == ms[n][1]
             e == ms[n][2]
             uri == SubSeq(text, i + 9, AnchorQuote(text, i) - 1)
             surface_form == SubSeq(text, AnchorText(text, i), e - 4)
             rest == Annotate(text, ms, n + 1,
                              deltaStringLength + (e - i + 1) - Len(surface_form), keep_anchors)
         IN  IF ~Contains(uri, UrlQuote("#")) \/ keep_anchors
             THEN <<[uri |-> uri, surface_form |-> surface_form,
                     offset |-> (i - 1) - deltaStringLength]>> \o rest
             ELSE rest

\* re.sub(pattern, lambda m: m.group(2), text)
RECURSIVE SubAnchors(_, _, _, _)
SubAnchors(text, ms, n, a) ==
    IF n > Len(ms) THEN DropFirst(text, a - 1)
    ELSE SubSeq(text, a, ms[n][1] - 1) \o SubSeq(text, AnchorText(text, ms[n][1]), ms[n][2] - 4)
         \o SubAnchors(text, ms, n + 1, ms[n][2] + 1)

AnchorMatches(text) == MatchesFrom(Pat("anchor", ""), text, text, 1)

\* lines 354-375 on the compacted document and the matches of the anchor pattern
AnnotateDocument(doc, ms, cfg) ==
    Ok([doc EXCEPT !.annotations = Annotate(doc.text.v, ms, 1, 0, cfg.keep_anchors),
                   !.text = Some(SubAnchors(doc.text.v, ms, 1, 1))])
\* lines 350-375 on what __compact returns, lines 349-375 on what __clean returns
AfterCompact(k, cfg) ==
    IF k.st # "ok" THEN k ELSE AnnotateDocument(k.doc, AnchorMatches(k.doc.text.v), cfg)
AfterClean(c, cfg) == IF c.st # "ok" THEN c ELSE AfterCompact(compact(c.doc, cfg), cfg)
process_document(wiki_document, cfg) == AfterClean(clean(wiki_document), cfg)

is_category_page(wiki_document) == StartsWith(Lower(wiki_document.title.v), "category:")
is_redirect(wiki_document) == StartsWith(Lower(LStrip(wiki_document.text.v, SpaceSet)), "#redirect")

(***************************************************************************)
(* AnnotatedWikiDocument.__str__: ujson.dumps of the six fields, in the    *)
(* order they are set, and a newline.  ujson writes no blanks, escapes the *)
(* solidus and writes a character outside ASCII as \u followed by its code *)
(***************************************************************************)
Latin1 == "£¤«¿»Éé"
Latin1Hex == <<"a3", "a4", "ab", "bf", "bb", "c9", "e9">>

JsonChar(c) ==
    CASE c = "\"" -> "\\\""
      [] c = "\\" -> "\\\\"
      [] c = "/" -> "\\/"
      [] c = "\n" -> "\\n"
      [] c = "\t" -> "\\t"
      [] c = "\r" -> "\\r"
      [] IndexIn(Latin1, c) > 0 -> "\\u00" \o Latin1Hex[IndexIn(Latin1, c)]
      [] OTHER -> c

RECURSIVE JsonEscape(_)
JsonEscape(s) ==
    IF Len(s) = 0 THEN ""
    ELSE IF Len(s) = 1 THEN JsonChar(s)
    ELSE LET h == Len(s) \div 2 IN JsonEscape(SubSeq(s, 1, h)) \o JsonEscape(SubSeq(s, h + 1, Len(s)))

JsonString(s) == "\"" \o JsonEscape(s) \o "\""
JsonOptString(o) == IF o.some THEN JsonString(o.v) ELSE "null"
JsonOptInt(o) == IF o.some THEN ToString(o.v) ELSE "null"
JsonAnnotation(a) ==
    "{\"uri\":" \o JsonString(a.uri) \o ",\"surface_form\":" \o JsonString(a.surface_form)
    \o ",\"offset\":" \o ToString(a.offset) \o "}"

\* the items of a list, separated by commas
RECURSIVE JsonItems(_, _)
JsonItems(items, n) ==
    IF n > Len(items) THEN ""
    ELSE (IF n > 1 THEN "," ELSE "") \o items[n] \o JsonItems(items, n + 1)

\* the orders in which the elements of a set can be iterated
Orders(S) == {o \in [1..Cardinality(S) -> S] : \A i, j \in 1..Cardinality(S) : o[i] = o[j] => i = j}

\* wiki_document.categories is a set: category_order is the order its iteration takes
document_str(wiki_document, category_order) ==
    "{\"id\":" \o JsonOptInt(wiki_document.id)
    \o ",\"url\":" \o JsonOptString(wiki_document.url)
    \o ",\"title\":" \o JsonOptString(wiki_document.title)
    \o ",\"text\":" \o JsonOptString(wiki_document.text)
    \o ",\"annotations\":["
    \o JsonItems([n \in 1..Len(wiki_document.annotations) |-> JsonAnnotation(wiki_document.annotations[n])], 1)
    \o "],\"categories\":["
    \o JsonItems([n \in 1..Len(category_order) |-> JsonString(category_order[n])], 1)
    \o "]}\n"

(***************************************************************************)
(* AnnotatedWikiExtractor.process_page: None, an exception, or the dict    *)
(* data with the key "redirect", "parent_categories" or "json".  The       *)
(* categories are a set, whose iteration order the interpreter chooses, so *)
(* a page has a set of possible outcomes                                   *)
(***************************************************************************)
NoData == [st |-> "none", exc |-> "", kind |-> "", url |-> "", redirect |-> "",
           parent_categories |-> <<>>, json |-> ""]
RaiseData(exc) == [NoData EXCEPT !.st = "raise", !.exc = exc]

\* line 279
UrlData(wiki_document) == [NoData EXCEPT !.st = "ok", !.url = wiki_document.url.v]

\* a variant of lines 279-293 that tests for a category page before it tests
\* for a redirect
PageDataCategoryFirst(wiki_document, cfg) ==
    IF is_category_page(wiki_document)
    THEN {[UrlData(wiki_document) EXCEPT
               !.kind = "parent_categories",
               !.parent_categories = [n \in 1..Len(o) |-> get_wiki_document_url(o[n], cfg.prefix, FALSE)]] :
              o \in Orders(wiki_document.categories)}
    ELSE IF is_redirect(wiki_document)
    THEN IF Len(wiki_document.annotations) > 0
         THEN {[UrlData(wiki_document) EXCEPT
                    !.kind = "redirect",
                    !.redirect = get_wiki_document_url(wiki_document.annotations[1].uri,
                                                       cfg.prefix, FALSE)]}
         ELSE {NoData}
    ELSE {[UrlData(wiki_document) EXCEPT !.kind = "json", !.json = document_str(wiki_document, o)] :
              o \in Orders(wiki_document.categories)}

\* lines 279-293: the records that can be built from a processed document
page_data(wiki_document, cfg) ==
    IF is_redirect(wiki_document)
    THEN IF Len(wiki_document.annotations) > 0
         THEN {[UrlData(wiki_document) EXCEPT
                    !.kind = "redirect",
                    !.redirect = get_wiki_document_url(wiki_document.annotations[1].uri,
                                                       cfg.prefix, FALSE)]}
         ELSE {NoData}
    ELSE IF is_category_page(wiki_document)
    THEN {[UrlData(wiki_document) EXCEPT
               !.kind = "parent_categories",
               !.parent_categories = [n \in 1..Len(o) |-> get_wiki_document_url(o[n], cfg.prefix, FALSE)]] :
              o \in Orders(wiki_document.categories)}
    ELSE {[UrlData(wiki_document) EXCEPT !.kind = "json", !.json = document_str(wiki_document, o)] :
              o \in Orders(wiki_document.categories)}

\* lines 276-293 on what process_document returns, lines 272-293 on what
\* extract_raw_document returns
AfterProcess(d, cfg) ==
    IF d.st = "none" THEN {NoData}
    ELSE IF d.st = "raise" THEN {RaiseData(d.exc)}
    ELSE page_data(d.doc, cfg)
AfterExtract(raw, cfg) ==
    IF raw.st = "none" THEN {NoData}
    ELSE IF raw.st = "raise" THEN {RaiseData(raw.exc)}
    ELSE AfterProcess(process_document(raw.doc, cfg), cfg)
process_page(page, cfg) == AfterExtract(extract_raw_document(page, cfg, FALSE), cfg)

(***************************************************************************)
(* OutputSplitter: the pure parts                                          *)
(***************************************************************************)
\* the shards of one directory: __open_next_file starts a directory when the
\* file index reaches it
FilesPerDir == 100
\* main()'s path_name and the size limit it passes on, in bytes (500 * 1024 by
\* default, scaled to the lengths of the records of the model)
path_name == "out"
max_file_size == 4

DirLetters == "ABCDEFGHIJKLMNOPQRSTUVWXYZ"

\* os.path.join and os.path.relpath, for a path below start
PathJoin(a, b) == a \o "/" \o b
RelPath(path, start) == DropFirst(path, Len(start) + 1)

\* __get_dir_name: '%c%c' of the letters char2 and char1
get_dir_name(dir) ==
    LET char1 == dir % 26
        char2 == (dir \div 26) % 26
    IN  PathJoin(path_name, CharAt(DirLetters, char2 + 1) \o CharAt(DirLetters, char1 + 1))

\* __get_file_name: 'wiki%02d'
get_file_name(file) == "wiki" \o (IF file < 10 THEN "0" ELSE "") \o ToString(file)

\* a variant of the counters below that starts a directory one file late
OpenNextLate(dir, file) ==
    IF file + 1 = FilesPerDir + 1 THEN [dir_index |-> dir + 1, file_index |-> 0]
    ELSE [dir_index |-> dir, file_index |-> file + 1]
\* __open_next_file, its counters: the directory and file index of the next shard
open_next_file(dir, file) ==
    IF file + 1 = FilesPerDir THEN [dir_index |-> dir + 1, file_index |-> 0]
    ELSE [dir_index |-> dir, file_index |-> file + 1]

\* the path __open_next_file opens for these counters
ShardPath(c) == PathJoin(get_dir_name(c.dir_index), get_file_name(c.file_index))

\* write's test  cur_file_size + text_len / 2 > max_file_size  (a true division)
NeedsNextFile(cur, text_len) == 2 * cur + text_len > 2 * max_file_size

\* a variant of the index line below that counts the lines of a shard from 1
AddToIndexOneBased(url, filepath, line) == <<url, RelPath(filepath, path_name), line + 1>>
\* __add_to_index: the three tab-separated fields of the line
add_to_index(url, filepath, line) == <<url, RelPath(filepath, path_name), line>>

(***************************************************************************)
(* process_file: the pure parts                                            *)
(***************************************************************************)
\* a batch is mapped when pages holds this many records (10000 in the source,
\* scaled to the streams of the model)
BatchSize == 2
\* the pool sizes the model draws number_of_workers from
MaxWorkers == 2

\* a variant of the test below that lets map return with the first task done
AnyDone(states) == \E i \in 1..Len(states) : states[i] = "done"
\* Pool.map returns when every task of the batch is done
AllDone(states) == \A i \in 1..Len(states) : states[i] = "done"

(***************************************************************************)
(* The inputs of the model                                                 *)
(***************************************************************************)
TextOpen == "<text xml:space=\"preserve\">"
TitleElement(title) == "<title>" \o title \o "</title>"
TextElement(body) == TextOpen \o body \o "</text>"

\* page titles: two articles, a category, and two of the excluded namespaces
Titles == {"A", "A b", "Category:X", "File:A", "Template:T"}
\* page bodies of one line
RedirectTargets == {"Target", "target b"}
RedirectBodies == {"#REDIRECT [[" \o t \o "]]" : t \in RedirectTargets}
Bodies == RedirectBodies \cup
          {"#REDIRECT", "#redirect [[File:F]]", "[[Category:Y]]", "[[Category:Y]] a b c d e f",
           "a [[Foo|bar]] c d e f [[Foo#Bar|x]] [[Foo%23B|y]] [[Zed]]",
           "[[a%23b|one]] two [[three]] [[four|4]] five six seven"}
\* the page records process_page is called with: the stripped lines of a page
PageInputs ==
    {<<TitleElement(t), TextElement(b)>> : t \in Titles, b \in Bodies}
    \cup {<<"<id>12</id>", TitleElement(t), "<revision>", "<id>7</id>", TextElement(b), "</revision>">> :
              t \in Titles, b \in Bodies}
    \cup {<<"foo", TitleElement(t)>> : t \in Titles}
    \cup {<<TitleElement(t)>> : t \in Titles}
\* the extractor's settings: main() sets keep_anchors from the command line
Configs == {[DefaultConfig EXCEPT !.keep_anchors = k] : k \in BOOLEAN}

\* the lines of a dump, as the file yields them
PageBegin == "  <page>\n"
PageEnd == "  </page>\n"
TitleA == "    <title>A</title>\n"
TextC == "      " \o TextElement("#REDIRECT [[C]]") \o "\n"
TextD == "      " \o TextElement("#REDIRECT [[D]]") \o "\n"
\* a stream is a sequence of at most MaxSegments of these: a page that redirects
\* to C, one that redirects to D, one without text, one without lines, an end
\* delimiter on its own, and a line outside every page
Segments == {<<PageBegin, TitleA, TextC, PageEnd>>, <<PageBegin, TitleA, TextD, PageEnd>>,
             <<PageBegin, TitleA, PageEnd>>, <<PageBegin, PageEnd>>, <<PageEnd>>, <<TextD>>}
MaxSegments == 3
RECURSIVE Streams(_)
Streams(k) ==
    IF k = 0 THEN {<<>>}
    ELSE LET S == Streams(k - 1) IN S \cup {s \o g : s \in S, g \in Segments}
InputFiles == Streams(MaxSegments)

\* the records write is called with: articles of three sizes, a redirect and
\* category memberships
Filler(n) == SubSeq("xxxxxxxxxxxxxxxxxxxxxxxxxxxxxxxx", 1, n - 1) \o "\n"
TextLens == {1, max_file_size, 2 * max_file_size + 1}
Urls == {get_wiki_document_url(t, default_prefix, FALSE) : t \in {"A", "A b"}}
ArticleData(url, n) == [NoData EXCEPT !.st = "ok", !.kind = "json", !.url = url, !.json = Filler(n)]
RedirectData(url, to) == [NoData EXCEPT !.st = "ok", !.kind = "redirect", !.url = url, !.redirect = to]
CategoryData(url, parents) ==
    [NoData EXCEPT !.st = "ok", !.kind = "parent_categories", !.url = url, !.parent_categories = parents]
WriterInputs ==
    {ArticleData(u, n) : u \in Urls, n \in TextLens}
    \cup {RedirectData(default_prefix \o "R", default_prefix \o "A")}
    \cup {CategoryData(default_prefix \o "Category:X", ps) :
              ps \in {<<>>, <<default_prefix \o "Category:Y", default_prefix \o "Category:Z">>}}
MaxWrites == 4
\* the rotations of the long run: an article of the maximal size, again and again
RotateInputs == {ArticleData(default_prefix \o "A", max_file_size)}
MaxRotations == 205

(***************************************************************************)
(* The state                                                               *)
(***************************************************************************)
VARIABLES
    \* one call of AnnotatedWikiExtractor.process_page: its argument, the
    \* extractor's settings, the document, the returned data and the position
    page_arg, extractor, wiki_document, data, page_pc,
    \* OutputSplitter: its fields, and the files below path_name
    dir_index, file_index, cur_file_size, line_number, current_filepath,
    files, index_file, categories_file, redirects_file, open_handles,
    \* process_file: the rest of the input, the pool size, the locals (a list
    \* is a reference into heap), the pool's tasks, what process_page returns
    \* for each of them (a set: see process_page) and the position
    input_file, number_of_workers, pages, page, heap, page_counter,
    tasks, returns, task_state, results, next_result, last_batch, file_pc,
    \* history: the data write was called with, where each article went, the
    \* shards opened, the records the delimiters of the input enclose (records) ,
    \* the record being read (current_record) and the number of batches mapped
    written, placed, shards_opened, records, current_record, batches

pageVars == <<page_arg, extractor, wiki_document, data, page_pc>>
writerVars == <<dir_index, file_index, cur_file_size, line_number, current_filepath,
                files, index_file, categories_file, redirects_file, open_handles,
                written, placed, shards_opened>>
poolVars == <<tasks, returns, task_state, results, next_result>>
fileVars == <<input_file, number_of_workers, pages, page, heap, page_counter,
              last_batch, file_pc, records, current_record, batches>>
vars == <<pageVars, writerVars, poolVars, fileVars>>

IndexPath == PathJoin(path_name, "index.tsv")
CategoriesPath == PathJoin(path_name, "categories.tsv")
RedirectsPath == PathJoin(path_name, "redirects.tsv")

(***************************************************************************)
(* AnnotatedWikiExtractor.process_page, step by step                       *)
(***************************************************************************)
PageIdle ==
    /\ page_arg = <<>>
    /\ extractor = DefaultConfig
    /\ wiki_document = Ok(AnnotatedWikiDocument)
    /\ data = NoData
    /\ page_pc = "idle"

\* a step that returns None or raises ends the call
Returned(r) == IF r.st = "none" THEN NoData ELSE RaiseData(r.exc)

\* line 271
ExtractRawDocument ==
    /\ page_pc = "extract_raw_document"
    /\ wiki_document' = extract_raw_document(page_arg, extractor, FALSE)
    /\ page_pc' = IF wiki_document'.st = "ok" THEN "process_document" ELSE "return"
    /\ data' = IF wiki_document'.st = "ok" THEN data ELSE Returned(wiki_document')
    /\ UNCHANGED <<page_arg, extractor, writerVars, poolVars, fileVars>>

\* line 275
ProcessDocument ==
    /\ page_pc = "process_document"
    /\ wiki_document' = process_document(wiki_document.doc, extractor)
    /\ page_pc' = IF wiki_document'.st = "ok" THEN "data" ELSE "return"
    /\ data' = IF wiki_document'.st = "ok" THEN data ELSE Returned(wiki_document')
    /\ UNCHANGED <<page_arg, extractor, writerVars, poolVars, fileVars>>

\* lines 279-293
BuildData ==
    /\ page_pc = "data"
    /\ \E d \in page_data(wiki_document.doc, extractor) : data' = d
    /\ page_pc' = "return"
    /\ UNCHANGED <<page_arg, extractor, wiki_document, writerVars, poolVars, fileVars>>

(***************************************************************************)
(* OutputSplitter                                                          *)
(***************************************************************************)
\* __init__: the counters start at 0 and -1, and the first shard is opened
WriterInit ==
    LET c == open_next_file(0, -1) IN
    /\ dir_index = c.dir_index
    /\ file_index = c.file_index
    /\ cur_file_size = 0
    /\ line_number = 0
    /\ current_filepath = ShardPath(c)
    /\ files = (ShardPath(c) :> <<>>)
    /\ index_file = <<>>
    /\ categories_file = <<>>
    /\ redirects_file = <<>>
    /\ open_handles = {ShardPath(c), IndexPath, CategoriesPath, RedirectsPath}
    /\ written = <<>>
    /\ placed = <<>>
    /\ shards_opened = <<[dir_index |-> c.dir_index, file_index |-> c.file_index, path |-> ShardPath(c)]>>

\* a variant of the lines below with one line for the record, whatever the
\* number of its parents
CategoryRecordLine(d) == <<<<d.url, Join(d.parent_categories, ",")>>>>
\* lines 644-645: the lines written to categories.tsv, one for each parent
category_lines(d) == [n \in 1..Len(d.parent_categories) |-> <<d.url, d.parent_categories[n]>>]

\* write(data), for a dict with the key "parent_categories", "redirect" or "json"
write(d) ==
    /\ written' = Append(written, d)
    /\ IF d.kind = "parent_categories"
       THEN /\ categories_file' = categories_file \o category_lines(d)
            /\ UNCHANGED <<dir_index, file_index, cur_file_size, line_number, current_filepath,
                           files, index_file, redirects_file, open_handles, placed, shards_opened>>
       ELSE IF d.kind = "redirect"
       THEN /\ redirects_file' = Append(redirects_file, <<d.url, d.redirect>>)
            /\ UNCHANGED <<dir_index, file_index, cur_file_size, line_number, current_filepath,
                           files, index_file, categories_file, open_handles, placed, shards_opened>>
       ELSE LET text == d.json
                text_len == Len(text)
                next == NeedsNextFile(cur_file_size, text_len)
                c == IF next THEN open_next_file(dir_index, file_index)
                     ELSE [dir_index |-> dir_index, file_index |-> file_index]
                filepath == IF next THEN ShardPath(c) ELSE current_filepath
                \* open(filepath, 'w') makes the file empty
                opened == IF next THEN (filepath :> <<>>) @@ files ELSE files
                line == IF next THEN 0 ELSE line_number
            IN  /\ dir_index' = c.dir_index
                /\ file_index' = c.file_index
                /\ current_filepath' = filepath
                /\ open_handles' = IF next THEN (open_handles \ {current_filepath}) \cup {filepath}
                                   ELSE open_handles
                /\ shards_opened' = IF next
                                    THEN Append(shards_opened,
                                                [dir_index |-> c.dir_index, file_index |-> c.file_index,
                                                 path |-> filepath])
                                    ELSE shards_opened
                /\ files' = [opened EXCEPT ![filepath] = Append(@, text)]
                /\ placed' = Append(placed, [path |-> filepath, line |-> Len(opened[filepath])])
                /\ cur_file_size' = (IF next THEN 0 ELSE cur_file_size) + text_len
                /\ index_file' = Append(index_file, add_to_index(d.url, filepath, line))
                /\ line_number' = line + 1
                /\ UNCHANGED <<categories_file, redirects_file>>

\* a call of write by the owner of the splitter, before it closes it
Write ==
    /\ file_pc = "idle"
    /\ Len(written) < MaxWrites
    /\ current_filepath \in open_handles
    /\ \E d \in WriterInputs : write(d)
    /\ UNCHANGED <<pageVars, poolVars, fileVars>>

WriteMaximal ==
    /\ file_pc = "idle"
    /\ Len(written) < MaxRotations
    /\ current_filepath \in open_handles
    /\ \E d \in RotateInputs : write(d)
    /\ UNCHANGED <<pageVars, poolVars, fileVars>>

\* close(): the current shard and the index are closed
Close ==
    /\ file_pc \in {"idle", "done"}
    /\ current_filepath \in open_handles
    /\ open_handles' = open_handles \ {current_filepath, IndexPath}
    /\ UNCHANGED <<dir_index, file_index, cur_file_size, line_number, current_filepath,
                   files, index_file, categories_file, redirects_file, written, placed,
                   shards_opened, pageVars, poolVars, fileVars>>

(***************************************************************************)
(* process_file                                                            *)
(***************************************************************************)
\* the start of process_file(input_file, output_splitter, number_of_workers)
FileStart(stream, workers, pc) ==
    /\ input_file = stream
    /\ number_of_workers = workers
    /\ pages = <<>>
    /\ page = 1
    /\ heap = << <<>> >>
    /\ page_counter = 0
    /\ tasks = <<>>
    /\ returns = <<>>
    /\ task_state = <<>>
    /\ results = <<>>
    /\ next_result = 1
    /\ last_batch = FALSE
    /\ file_pc = pc
    /\ records = <<>>
    /\ current_record = [open |-> FALSE, lines |-> <<>>]
    /\ batches = 0

FileIdle == FileStart(<<>>, 1, "idle")

\* pool.map(process_page, ps): the lists ps refers to are pickled for the
\* workers as they are now.  A batch of the model is no longer than four times
\* the pool, so that map makes one task of each page
Map(ps) ==
    /\ tasks' = [i \in 1..Len(ps) |-> heap[ps[i]]]
    /\ returns' = [i \in 1..Len(ps) |-> process_page(heap[ps[i]], extractor)]
    /\ task_state' = [i \in 1..Len(ps) |-> "queued"]
    /\ results' = [i \in 1..Len(ps) |-> NoData]
    /\ next_result' = 1
    /\ batches' = batches + 1
    /\ file_pc' = "map"

\* one turn of the loop over the lines of the input
ReadLine ==
    /\ file_pc = "read"
    /\ input_file # <<>>
    /\ input_file' = Tail(input_file)
    /\ LET line == Strip(Head(input_file), SpaceSet) IN
         IF line = "<page>"
         THEN /\ heap' = Append(heap, <<>>)
              /\ page' = Len(heap) + 1
              /\ current_record' = [open |-> TRUE, lines |-> <<>>]
              /\ UNCHANGED <<pages, page_counter, last_batch, file_pc, records, batches, poolVars>>
         ELSE IF line = "</page>"
         THEN /\ pages' = Append(pages, page)
              /\ page_counter' = page_counter + 1
              /\ records' = IF current_record.open THEN Append(records, current_record.lines)
                            ELSE records
              /\ current_record' = [open |-> FALSE, lines |-> <<>>]
              /\ IF Len(pages) + 1 >= BatchSize
                 THEN Map(Append(pages, page))
                 ELSE UNCHANGED <<file_pc, batches, poolVars>>
              /\ UNCHANGED <<heap, page, last_batch>>
         ELSE /\ heap' = [heap EXCEPT ![page] = Append(@, line)]
              /\ current_record' = IF current_record.open
                                   THEN [current_record EXCEPT !.lines = Append(@, line)]
                                   ELSE current_record
              /\ UNCHANGED <<pages, page, page_counter, last_batch, file_pc, records, batches, poolVars>>
    /\ UNCHANGED <<number_of_workers, pageVars, writerVars>>

\* the input is exhausted: the pages left are mapped, if there are any
EndOfInput ==
    /\ file_pc = "read"
    /\ input_file = <<>>
    /\ IF Len(pages) > 0
       THEN Map(pages) /\ last_batch' = TRUE
       ELSE file_pc' = "done" /\ UNCHANGED <<last_batch, batches, poolVars>>
    /\ UNCHANGED <<input_file, number_of_workers, pages, page, heap, page_counter,
                   records, current_record, pageVars, writerVars>>

Running == {i \in 1..Len(task_state) : task_state[i] = "running"}
Queued == {i \in 1..Len(task_state) : task_state[i] = "queued"}

\* a free worker takes the next task of the batch
WorkerStart ==
    /\ file_pc = "map"
    /\ Queued # {}
    /\ Cardinality(Running) < number_of_workers
    /\ LET i == CHOOSE q \in Queued : \A r \in Queued : q <= r IN
         task_state' = [task_state EXCEPT ![i] = "running"]
    /\ UNCHANGED <<tasks, returns, results, next_result, fileVars, pageVars, writerVars>>

\* a worker finishes its task: process_page(page) returns or raises, as the
\* page pickled for it decides
WorkerFinish ==
    /\ file_pc = "map"
    /\ \E i \in Running :
         /\ \E x \in returns[i] : results' = [results EXCEPT ![i] = x]
         /\ task_state' = [task_state EXCEPT ![i] = "done"]
    /\ UNCHANGED <<tasks, returns, next_result, fileVars, pageVars, writerVars>>

\* a variant of the outcome below in which map yields the results of the tasks
\* that did not raise
MapSkipsRaised(rs) == "write"
\* pool.map returns the results in the order of the pages, or raises what a
\* task raised: nothing catches it, and process_file ends with it
MapOutcome(rs) == IF \E i \in 1..Len(rs) : rs[i].st = "raise" THEN "raised" ELSE "write"
MapReturn ==
    /\ file_pc = "map"
    /\ AllDone(task_state)
    /\ file_pc' = MapOutcome(results)
    /\ UNCHANGED <<input_file, number_of_workers, pages, page, heap, page_counter, last_batch,
                   records, current_record, batches, poolVars, pageVars, writerVars>>

\* one turn of the loop over the results: a result that is not None is written
WriteResult ==
    /\ file_pc = "write"
    /\ next_result <= Len(results)
    /\ IF results[next_result].st = "ok"
       THEN write(results[next_result])
       ELSE UNCHANGED writerVars
    /\ next_result' = next_result + 1
    /\ UNCHANGED <<tasks, returns, task_state, results, fileVars, pageVars>>

\* the loop over the results ends: pages = [], or the end of process_file
BatchWritten ==
    /\ file_pc = "write"
    /\ next_result > Len(results)
    /\ IF last_batch
       THEN file_pc' = "done" /\ UNCHANGED pages
       ELSE file_pc' = "read" /\ pages' = <<>>
    /\ UNCHANGED <<input_file, number_of_workers, page, heap, page_counter, last_batch,
                   records, current_record, batches, poolVars, pageVars, writerVars>>

(***************************************************************************)
(* The specifications                                                      *)
(***************************************************************************)
\* main(): the splitter is made, process_file reads a stream with a pool of
\* workers, and the splitter is closed
Init ==
    /\ PageIdle
    /\ WriterInit
    /\ \E stream \in InputFiles, workers \in 1..MaxWorkers : FileStart(stream, workers, "read")

Next ==
    \/ ReadLine
    \/ EndOfInput
    \/ WorkerStart
    \/ WorkerFinish
    \/ MapReturn
    \/ WriteResult
    \/ BatchWritten
    \/ Close

Spec == Init /\ [][Next]_vars

\* one call of process_page, for every page and setting of the model
InitPage ==
    /\ page_arg \in PageInputs
    /\ extractor \in Configs
    /\ wiki_document = Ok(AnnotatedWikiDocument)
    /\ data = NoData
    /\ page_pc = "extract_raw_document"
    /\ WriterInit
    /\ FileIdle

NextPage ==
    \/ ExtractRawDocument
    \/ ProcessDocument
    \/ BuildData

SpecPage == InitPage /\ [][NextPage]_vars

\* a splitter and the calls of write and close its owner makes
InitWriter ==
    /\ PageIdle
    /\ WriterInit
    /\ FileIdle

NextWriter ==
    \/ Write
    \/ Close

SpecWriter == InitWriter /\ [][NextWriter]_vars

\* the same splitter, through more than two directories
NextRotate ==
    \/ WriteMaximal
    \/ Close

SpecRotate == InitWriter /\ [][NextRotate]_vars

(***************************************************************************)
(* Properties of process_file (Spec)                                       *)
(***************************************************************************)
\* the sequences of data write can be called with for the page records recs:
\* the results of process_page that are not None, in the order of the records
RECURSIVE WritesOf(_)
WritesOf(recs) ==
    IF recs = <<>> THEN {<<>>}
    ELSE {(IF x.st = "ok" THEN <<x>> ELSE <<>>) \o w :
              x \in process_page(Head(recs), extractor), w \in WritesOf(Tail(recs))}

\* C1: when process_file has returned normally, the data handed to write are
\* exactly the non-None results of process_page for the complete page records
\* (the lines between a page-begin and the next page-end delimiter), each once
\* and in the order of the input
C1_WritesFollowInput == file_pc = "done" => written \in WritesOf(records)

\* C2: write is never called while a task of the pool is queued or running, a
\* batch is mapped only when the loop over the results of the batch before has
\* ended, and pages never holds more than BatchSize records
C2_BatchesSerialized ==
    /\ [](Len(pages) <= BatchSize)
    /\ [][/\ written' # written => (Running = {} /\ Queued = {})
          /\ batches' # batches => next_result > Len(results)]_vars

\* a second batch is being written after the first one was written in full
C2_SecondBatchWritten ==
    /\ batches = 2
    /\ file_pc = "write"
    /\ next_result > 1
    /\ Len(written) = BatchSize + 1
    /\ number_of_workers > 1

(***************************************************************************)
(* Properties of OutputSplitter (SpecWriter, SpecRotate)                   *)
(***************************************************************************)
IsArticle(d) == d.kind = "json"
Articles == SelectSeq(written, IsArticle)

RECURSIVE TotalLen(_)
TotalLen(texts) == IF texts = <<>> THEN 0 ELSE Len(Head(texts)) + TotalLen(Tail(texts))

\* C3: when no article written is longer than max_file_size, no shard holds
\* more than max_file_size characters
C3_ShardWithinMaximum ==
    (\A i \in 1..Len(Articles) : Len(Articles[i].json) <= max_file_size)
        => \A f \in DOMAIN files : TotalLen(files[f]) <= max_file_size

\* C4: file_index is in 0..99; the k-th shard opened, k counted from 0, has
\* file index k mod 100 and directory index k div 100, the counters being those
\* of the last shard opened; dir_index grows, by one, exactly in the step that
\* takes file_index from 99 to 0
C4_DirectoryEveryHundredth ==
    /\ [](/\ file_index \in 0..99
          /\ \A k \in 1..Len(shards_opened) :
                /\ shards_opened[k].file_index = (k - 1) % 100
                /\ shards_opened[k].dir_index = (k - 1) \div 100
          /\ shards_opened[Len(shards_opened)].file_index = file_index
          /\ shards_opened[Len(shards_opened)].dir_index = dir_index)
    /\ [][/\ dir_index' \in {dir_index, dir_index + 1}
          /\ dir_index' = dir_index + 1 <=> (file_index = 99 /\ file_index' = 0)]_vars

\* the splitter is in its third directory
C4_ThirdDirectory == dir_index = 2 /\ file_index > 0 /\ Len(shards_opened) > 200

\* C5: index.tsv has one line per article written, in the order of the writes:
\* the url of the article, the path (relative to path_name) of the shard that
\* received it, and the number of articles that shard received before it, which
\* is the line of the shard that holds the article
C5_IndexLines ==
    /\ Len(index_file) = Len(Articles)
    /\ Len(placed) = Len(Articles)
    /\ \A i \in 1..Len(index_file) :
         /\ index_file[i][1] = Articles[i].url
         /\ PathJoin(path_name, index_file[i][2]) = placed[i].path
         /\ index_file[i][3] = Cardinality({j \in 1..(i - 1) : placed[j].path = placed[i].path})
         /\ placed[i].path \in DOMAIN files
         /\ index_file[i][3] < Len(files[placed[i].path])
         /\ files[placed[i].path][index_file[i][3] + 1] = Articles[i].json

\* articles were written before and after a rotation, one of them as the second
\* line of its shard
C5_SecondLineAndRotation ==
    /\ Len(index_file) >= 3
    /\ Len(shards_opened) >= 2
    /\ \E i \in 1..Len(index_file) : index_file[i][3] = 1

(***************************************************************************)
(* Properties of process_page (SpecPage)                                   *)
(***************************************************************************)
\* the page records of title t whose body is the line b alone
PagesOf(t, b) ==
    {<<TitleElement(t), TextElement(b)>>,
     <<"<id>12</id>", TitleElement(t), "<revision>", "<id>7</id>", TextElement(b), "</revision>">>}
\* the canonical url of a title
UrlOf(t) == get_wiki_document_url(t, default_prefix, FALSE)
\* the document process_page has processed
Processed == page_pc \in {"data", "return"} /\ wiki_document.st = "ok"

\* C6: for a page record one of whose lines is the title line of a title with
\* an excluded prefix, process_page returns None
C6_ExcludedTitleIsNone ==
    (page_pc = "return"
     /\ \E n \in 1..Len(page_arg) : \E t \in Titles : reject_page(t) /\ page_arg[n] = TitleElement(t))
        => data = NoData

\* C7: a page of a title that is not excluded whose body is the line
\* #REDIRECT [[g]] alone gives the redirect record from the url of the title to
\* the canonical url of g, also for a title of the category namespace; a
\* processed document whose text starts with the redirect keyword and that has
\* no annotation gives None
C7_Redirect ==
    page_pc = "return" =>
        /\ \A t \in Titles, g \in RedirectTargets :
             (~reject_page(t) /\ page_arg \in PagesOf(t, "#REDIRECT [[" \o g \o "]]"))
                 => data = RedirectData(UrlOf(t), UrlOf(g))
        /\ (wiki_document.st = "ok" /\ is_redirect(wiki_document.doc)
            /\ wiki_document.doc.annotations = <<>>)
               => data = NoData

\* the page Category:X that redirects to Target has returned its redirect record
C7_CategoryTitleRedirects ==
    /\ page_pc = "return"
    /\ page_arg = <<TitleElement("Category:X"), TextElement("#REDIRECT [[Target]]")>>
    /\ data.kind = "redirect"
    /\ data.redirect = default_prefix \o "Target"

\* C8: a page titled Category:X whose body holds the link [[Category:Y]] gives
\* the category record whose parents are the canonical url of Category:Y alone,
\* also when the body is nothing but that link
C8_CategoryMembership ==
    \A b \in Bodies :
        (page_pc = "return" /\ Contains(b, "[[Category:Y]]") /\ page_arg \in PagesOf("Category:X", b))
            => data = CategoryData(UrlOf("Category:X"), <<UrlOf("Category:Y")>>)

\* C9: for every annotation of a processed document, the offset and the length
\* of the surface form lie within the text, and the text from the offset on, in
\* that length, is the surface form
C9_OffsetsInFinalText ==
    Processed =>
        \A n \in 1..Len(wiki_document.doc.annotations) :
            LET a == wiki_document.doc.annotations[n] IN
            /\ a.offset >= 0
            /\ a.offset + Len(a.surface_form) <= Len(wiki_document.doc.text.v)
            /\ SubSeq(wiki_document.doc.text.v, a.offset + 1, a.offset + Len(a.surface_form))
                   = a.surface_form

\* two annotations come after an anchor that was not recorded
C9_AfterUnrecordedAnchor ==
    /\ Processed
    /\ ~extractor.keep_anchors
    /\ Contains(wiki_document.doc.text.v, "one two three 4 five")
    /\ Len(wiki_document.doc.annotations) = 2
    /\ wiki_document.doc.annotations[1].surface_form = "three"
    /\ wiki_document.doc.annotations[2].offset > wiki_document.doc.annotations[1].offset

\* C10: without keep_anchors, no annotation of a processed document has a uri
\* with the fragment delimiter #
C10_NoFragmentAnnotated ==
    (Processed /\ ~extractor.keep_anchors)
        => \A n \in 1..Len(wiki_document.doc.annotations) :
               ~Contains(wiki_document.doc.annotations[n].uri, "#")

(***************************************************************************)
(* Pages of several lines, for __compact                                   *)
(***************************************************************************)
\* a body line that is kept, and a heading line
PlainLines == {"a b c d e f", "==H=="}
\* a list, enumeration, indent, definition and table line, a line of few
\* tokens, a second heading, a second line that is kept, and a line with the
\* marker of a title
SpecialLines == {"* m n o p q r", "# m n o p q r", ": m n o p q r", "; m n o p q r",
                 "| m n o p q r", "{ m n o p q r", "x y", "==K==", "g h i j k l", "++Z++"}
\* the longest page body
MaxBodyLines == 4
SectionBodies ==
    UNION {UNION {[1..k -> PlainLines \cup {m}] : k \in 1..MaxBodyLines} : m \in SpecialLines}
\* the stripped lines of the page "A" of a dump whose text is the lines of b
SectionPage(b) ==
    IF Len(b) = 1 THEN <<TitleElement("A"), TextElement(b[1])>>
    ELSE <<TitleElement("A"), TextOpen \o b[1]>> \o SubSeq(b, 2, Len(b) - 1)
             \o <<b[Len(b)] \o "</text>">>
SectionPages == {SectionPage(b) : b \in SectionBodies}
\* the settings of the command line: nothing dropped (the default), or all of
\* lists, enumerations, tables and indents dropped
DropConfigs ==
    {[DefaultConfig EXCEPT !.drop_lists = k, !.drop_enumerations = k, !.drop_tables = k,
                           !.drop_indents = k] : k \in BOOLEAN}

\* one call of process_page on a page of several lines
InitSections ==
    /\ page_arg \in SectionPages
    /\ extractor \in DropConfigs
    /\ wiki_document = Ok(AnnotatedWikiDocument)
    /\ data = NoData
    /\ page_pc = "extract_raw_document"
    /\ WriterInit
    /\ FileIdle

SpecSections == InitSections /\ [][NextPage]_vars

\* the lines of the text __compact is called with, in a state that is about to
\* take the step of process_document
CompactInput == Split(clean(wiki_document.doc).doc.text.v, "\n")
\* the marker of a line and the toggle that drops it (none for a definition)
Marked(line) == SubSeq(line, 1, 1) \in {"*", "#", ":", ";", "{", "|"}
Dropping(line) ==
    LET c == SubSeq(line, 1, 1) IN
    IF c = "*" THEN extractor.drop_lists
    ELSE IF c = "#" THEN extractor.drop_enumerations
    ELSE IF c = ":" THEN extractor.drop_indents
    ELSE IF c \in {"{", "|"} THEN extractor.drop_tables
    ELSE FALSE
Unmarked(line) ==
    LET c == SubSeq(line, 1, 1) IN
    Strip(line, IF c \in {"{", "|"} THEN {"{", "|", " "} ELSE {c, " "})
InSeq(x, s) == \E n \in 1..Len(s) : s[n] = x

\* C11: when process_document returns a document, every list, enumeration,
\* indent, definition or table line of the text given to __compact whose toggle
\* is off is a line of the compacted text, without its marker, and such a line
\* whose toggle is on is not
C11_MarkedLineKept ==
    [][(page_pc = "process_document" /\ page_pc' = "data") =>
          \A lines \in {CompactInput} : \A n \in 1..Len(lines) :
              Marked(lines[n]) /\ Lower(Prefix(lines[n], 9)) # "#redirect" =>
                  (InSeq(Unmarked(lines[n]), Split(wiki_document'.doc.text.v, "\n"))
                       <=> ~Dropping(lines[n]))]_vars

\* whether a line of the text given to __compact reaches one of the two appends
\* of the loop (lines 551-555): it is no title, heading or marked line, not of
\* full stops, dashes and blanks alone, and has six tokens or a "_"
IsBodyLine(line) ==
    LET l == Strip(line, SpaceSet) IN
    /\ l # ""
    /\ ~StartsWith(l, "++") /\ ~StartsWith(l, "==") /\ ~Marked(l)
    /\ Strip(l, {".", "-", " "}) # ""
    /\ (Contains(l, "_") \/ CountTokens(l) >= 6)
IsRedirectLine(line) == Lower(Prefix(Strip(line, SpaceSet), 9)) = "#redirect"
HasBodyLine(lines) == \E n \in 1..Len(lines) : IsBodyLine(lines[n])

\* C12: for a text without a redirect line, process_document returns None (and
\* process_page returns None, without an exception) when the text given to
\* __compact has no body line, and returns a document when it has one
C12_LeadOnlyRejected ==
    [][page_pc = "process_document" =>
          \A lines \in {CompactInput} :
              (\A n \in 1..Len(lines) : ~IsRedirectLine(lines[n])) =>
                  IF HasBodyLine(lines)
                  THEN wiki_document'.st = "ok" /\ page_pc' = "data"
                  ELSE wiki_document'.st = "none" /\ page_pc' = "return" /\ data' = NoData]_vars

\* C13: every page handed to the pool is one of the records of the input, the
\* lines between a page-begin delimiter and the next page-end delimiter
C13_TasksAreRecords == \A i \in 1..Len(tasks) : InSeq(tasks[i], records)

\* C14: once a task of a batch has raised, write is not called and no batch is
\* mapped any more, and what was written stays as it is: write is called only
\* with the results of a batch none of whose tasks raised, written only grows
\* at its end, and nothing changes once process_file has ended with the
\* exception
AnyRaised == \E i \in 1..Len(results) : results[i].st = "raise"
C14_FailureEndsTheRun ==
    [][/\ written' # written =>
            (~AnyRaised /\ Len(written') = Len(written) + 1
             /\ SubSeq(written', 1, Len(written)) = written)
       /\ AnyRaised => batches' = batches
       /\ file_pc = "raised" => (written' = written /\ file_pc' = "raised")]_vars

\* process_file has ended with the exception of the first task of a batch whose
\* second task returned a record: the record was not written
C14_ResultAfterFailureDropped ==
    /\ file_pc = "raised"
    /\ Len(results) = 2
    /\ results[1].st = "raise"
    /\ results[2].st = "ok"
    /\ written = <<>>

(***************************************************************************)
(* A splitter whose files can fail                                         *)
(***************************************************************************)
\* a call of write in which the write to the side-file or to the shard raises
\* (OSError): lines 645, 648 and 658.  For an article the shard was rotated
\* before, when it had to be (lines 653-657); the exception leaves write and
\* its caller, and close() of line 821 is not reached
WriteRaises ==
    /\ file_pc = "idle"
    /\ Len(written) < MaxWrites
    /\ current_filepath \in open_handles
    /\ \E d \in WriterInputs :
         IF d.kind = "json" /\ NeedsNextFile(cur_file_size, Len(d.json))
         THEN LET c == open_next_file(dir_index, file_index) IN
              /\ dir_index' = c.dir_index
              /\ file_index' = c.file_index
              /\ current_filepath' = ShardPath(c)
              /\ open_handles' = (open_handles \ {current_filepath}) \cup {current_filepath'}
              /\ shards_opened' = Append(shards_opened,
                                         [dir_index |-> c.dir_index, file_index |-> c.file_index,
                                          path |-> current_filepath'])
              /\ files' = (current_filepath' :> <<>>) @@ files
              /\ line_number' = 0
              /\ cur_file_size' = 0
              /\ UNCHANGED <<index_file, categories_file, redirects_file, written, placed>>
         ELSE UNCHANGED writerVars
    /\ file_pc' = "raised"
    /\ UNCHANGED <<input_file, number_of_workers, pages, page, heap, page_counter,
                   last_batch, records, current_record, batches, pageVars, poolVars>>

NextSink ==
    \/ Write
    \/ WriteRaises
    \/ Close

SpecSink == InitWriter /\ [][NextSink]_vars

\* C15: when a write of the splitter has raised, no file of the splitter is
\* left open
C15_FailureClosesHandles == file_pc = "raised" => open_handles = {}

\* the state of the shards, the shard files and the index
ShardState == <<dir_index, file_index, cur_file_size, line_number, current_filepath, files,
                index_file>>

\* C16: a call of write with a redirect appends the line of its url and its
\* target to redirects.tsv and leaves categories.tsv as it is, a call with a
\* category page appends to categories.tsv one line of its url and the parent
\* for each parent, in their order, and leaves redirects.tsv as it is; neither
\* changes the counters of the splitter, the current shard, the shard files or
\* the index
C16_SideFilesOnly ==
    [][written' # written =>
          LET d == written'[Len(written')]
              n == Len(categories_file)
          IN  /\ d.kind = "redirect" =>
                    /\ redirects_file' = Append(redirects_file, <<d.url, d.redirect>>)
                    /\ categories_file' = categories_file
                    /\ UNCHANGED ShardState
              /\ d.kind = "parent_categories" =>
                    /\ Len(categories_file') = n + Len(d.parent_categories)
                    /\ \A i \in 1..Len(categories_file') :
                         categories_file'[i] = IF i <= n THEN categories_file[i]
                                               ELSE <<d.url, d.parent_categories[i - n]>>
                    /\ redirects_file' = redirects_file
                    /\ UNCHANGED ShardState]_vars

\* an article, a redirect, a category page with two parents and one with none
\* were written
C16_AllKindsWritten ==
    /\ Len(written) = 4
    /\ Len(index_file) = 1
    /\ Len(redirects_file) = 1
    /\ Len(categories_file) = 2
    /\ \E i \in 1..4 : written[i].kind = "parent_categories" /\ written[i].parent_categories = <<>>

(***************************************************************************)
(* __clean on its own                                                      *)
(***************************************************************************)
\* links, each with the target that makes it a category link ("" when it is
\* none): the target is what is left of the link before the first "|" without
\* a leading colon and an allowed prefix
Links ==
    {[link |-> "[[Category:Y]]", category |-> "Category:Y"],
     [link |-> "[[:Category:Y|t]]", category |-> "Category:Y"],
     [link |-> "[[w:category:Y]]", category |-> "category:Y"],
     [link |-> "[[en:Category: Y |k]]", category |-> "Category: Y "],
     [link |-> "[[ w:Category:Y]]", category |-> "Category:Y"],
     [link |-> "[[Category:Y|[[Foo]]]]", category |-> "Category:Y"],
     [link |-> "[Category:Y]]", category |-> "Category:Y"],
     [link |-> "[[Category:Y]", category |-> "Category:Y"],
     [link |-> "[[Foo]]", category |-> ""],
     [link |-> "[[Foo|Category:Y]]", category |-> ""],
     [link |-> "[[File:F]]", category |-> ""]}
LinkText(l) == "x " \o l.link \o " z"
\* texts without tags and links: at most MaxTokens of these pieces
PlainTokens == {"&amp;", "amp;", "&quot;", "&", "a", " "}
MaxTokens == 3
RECURSIVE Concat(_)
Concat(s) == IF s = <<>> THEN "" ELSE Head(s) \o Concat(Tail(s))
PlainTexts == {Concat(s) : s \in UNION {[1..k -> PlainTokens] : k \in 1..MaxTokens}}
CleanTexts == {LinkText(l) : l \in Links} \cup PlainTexts

\* a document with a text, cleaned and cleaned again; page_arg keeps the text
InitClean ==
    /\ page_arg \in {<<t>> : t \in CleanTexts}
    /\ extractor = DefaultConfig
    /\ wiki_document = Ok([AnnotatedWikiDocument EXCEPT !.text = Some(page_arg[1])])
    /\ data = NoData
    /\ page_pc = "clean"
    /\ WriterInit
    /\ FileIdle

\* wiki_document = self.__clean(wiki_document)
Clean ==
    /\ page_pc \in {"clean", "clean again"}
    /\ wiki_document' = clean(wiki_document.doc)
    /\ page_pc' = IF page_pc = "clean" THEN "clean again" ELSE "cleaned"
    /\ UNCHANGED <<page_arg, extractor, data, writerVars, poolVars, fileVars>>

SpecClean == InitClean /\ [][Clean]_vars

\* C17: __clean leaves in the category set of a text with one link the target
\* of the link when it is a category link, and nothing when it is not; nothing
\* of a category link is left in the text
C17_CategoryLinksRecorded ==
    [][page_pc = "clean" =>
          \A l \in Links :
              page_arg = <<LinkText(l)>> =>
                  /\ wiki_document'.doc.categories = IF l.category = "" THEN {} ELSE {l.category}
                  /\ l.category # "" => wiki_document'.doc.text.v = "x z"]_vars

\* C18: __clean leaves a text as it is that __clean returned for a text without
\* "<", ">", "[", "]", "{" and "}"
IsPlain(t) == CharSet(t) \cap {"<", ">", "[", "]", "{", "}"} = {}
C18_CleanIdempotent ==
    [][(page_pc = "clean again" /\ IsPlain(page_arg[1])) =>
          wiki_document'.doc.text = wiki_document.doc.text]_vars

\* the sections of a text that have a body line, in the order of the text: the
\* heading of each as __compact writes it, and its body lines
IsHeading(line) == StartsWith(Strip(line, SpaceSet), "==")
NextHeading(lines, h) ==
    LET H == {n \in (h + 1)..Len(lines) : IsHeading(lines[n])} IN
    IF H = {} THEN Len(lines) + 1 ELSE CHOOSE n \in H : \A k \in H : n <= k
HeadingKept(lines, h) ==
    \E n \in (h + 1)..(NextHeading(lines, h) - 1) : IsBodyLine(lines[n])
RECURSIVE SectionsFrom(_, _)
SectionsFrom(lines, n) ==
    IF n > Len(lines) THEN <<>>
    ELSE (IF IsHeading(lines[n])
          THEN (IF HeadingKept(lines, n) THEN <<Sentence(Strip(lines[n], SpaceSet))>> ELSE <<>>)
          ELSE IF IsBodyLine(lines[n]) THEN <<Strip(lines[n], SpaceSet)>>
          ELSE <<>>) \o SectionsFrom(lines, n + 1)
Sections(lines) == SectionsFrom(lines, NextHeading(lines, 0))
EndsWithSections(out, sections) ==
    /\ Len(out) > Len(sections)
    /\ SubSeq(out, Len(out) - Len(sections) + 1, Len(out)) = sections

\* C19: for a text without a redirect line, the text process_document returns
\* ends with the sections of the text given to __compact that have a body line
\* (one that follows the heading before the next heading or the end of the
\* text), in the order of the text, each heading before its body lines, and
\* with no other section; None is returned only when no section has a body line
C19_HeadingsWithBody ==
    [][page_pc = "process_document" =>
          \A lines \in {CompactInput} :
              (\A n \in 1..Len(lines) : ~IsRedirectLine(lines[n])) =>
                  IF wiki_document'.st = "ok"
                  THEN EndsWithSections(Split(wiki_document'.doc.text.v, "\n"), Sections(lines))
                  ELSE Sections(lines) = <<>>]_vars

(***************************************************************************)
(* A splitter late in a long run                                           *)
(***************************************************************************)
\* the directory indices of the starts below, and the writes that follow
MaxDirIndex == 675
MaxLateWrites == 3
\* the splitter when it has just opened the last shard of directory d (shard
\* 100 * d + 99 of the run): its counters, and of its history the first shard
\* of the run and the current one; the shards in between and what was written
\* to them are left out
LateStart(d) ==
    LET first == [dir_index |-> 0, file_index |-> 0, path |-> ShardPath(open_next_file(0, -1))]
        c == [dir_index |-> d, file_index |-> FilesPerDir - 1]
    IN  /\ dir_index = d
        /\ file_index = FilesPerDir - 1
        /\ cur_file_size = 0
        /\ line_number = 0
        /\ current_filepath = ShardPath(c)
        /\ files = (ShardPath(c) :> <<>>) @@ (first.path :> <<Filler(max_file_size)>>)
        /\ index_file = <<>>
        /\ categories_file = <<>>
        /\ redirects_file = <<>>
        /\ open_handles = {ShardPath(c), IndexPath, CategoriesPath, RedirectsPath}
        /\ written = <<>>
        /\ placed = <<>>
        /\ shards_opened = <<first, [dir_index |-> d, file_index |-> FilesPerDir - 1,
                                     path |-> ShardPath(c)]>>

InitLate ==
    /\ PageIdle
    /\ \E d \in 0..MaxDirIndex : LateStart(d)
    /\ FileIdle

\* a call of write by the owner of the splitter, with an article of the
\* maximal size
WriteLate ==
    /\ file_pc = "idle"
    /\ Len(written) < MaxLateWrites
    /\ current_filepath \in open_handles
    /\ \E d \in RotateInputs : write(d)
    /\ UNCHANGED <<pageVars, poolVars, fileVars>>

NextLate ==
    \/ WriteLate
    \/ Close

SpecLate == InitLate /\ [][NextLate]_vars

\* C20: no two of the shards the splitter has opened have the same path
C20_ShardPathsDistinct ==
    \A i, j \in 1..Len(shards_opened) :
        shards_opened[i].path = shards_opened[j].path => i = j

\* C21: a call of write that opens the next shard leaves behind a shard that
\* holds at least one article
C21_RotationLeavesArticles ==
    [][current_filepath' # current_filepath => files[current_filepath] # <<>>]_vars

\* C22: as long as close() has not been called, exactly one shard is open, the
\* current one; when close() has returned, no file of the splitter is open
C22_CloseClosesAll ==
    IF current_filepath \in open_handles
    THEN open_handles \cap DOMAIN files = {current_filepath}
    ELSE open_handles = {}

====
